---------------------------- MODULE Spec2Model ----------------------------
(***************************************************************************)
(* The three SL1 GraphQL probe scripts (backend/test_graphql.py,            *)
(* backend/test_fields.py, backend/correct_query.py) as one state machine.  *)
(* A run executes one script: it walks the script's probes in source order, *)
(* POSTs each query, parses the body and prints sections of it.  The remote *)
(* server is the environment: it answers every POST with an arbitrary body  *)
(* or the transport raises.                                                 *)
(***************************************************************************)
EXTENDS Integers, Sequences, FiniteSets, TLC

VARIABLES
    script,      \* which of the three scripts this run executes
    pc,          \* position of the interpreter in the script
    k,           \* index (1-based) of the probe being handled
    response,    \* local `response`: the body requests.post returned
    result,      \* local `result`: response.json()
    exc,         \* the exception being propagated / handled, or NoExc
    out,         \* stdout lines printed since the current probe started
    sent,        \* every request handed to requests.post, in order
    inflight,    \* requests sent and not yet answered
    calls,       \* one record per probe started: its name and how it ended
    exitStatus   \* <<>> while running, <<0>> or <<1>> once the process ended

vars == <<script, pc, k, response, result, exc, out, sent, inflight, calls, exitStatus>>

-----------------------------------------------------------------------------
(* Bounds of the environment's answers. *)

\* longest `errors` array the server returns
MaxErrors == 2
\* longest JSON string body, in words
MaxStrLen == 1
\* longest JSON array body
MaxArrayLen == 1

-----------------------------------------------------------------------------
(* JSON values as Python sees them after response.json(). *)

JNull == [t |-> "null", v |-> "null"]
JBool(b) == [t |-> "bool", v |-> b]
JNumber(n) == [t |-> "number", v |-> n]
\* a string is a sequence of words; "errors" is <<"errors">>
JString(s) == [t |-> "string", v |-> s]
JArray(a) == [t |-> "array", v |-> a]
\* an object is a function from its keys to JSON values
JObject(f) == [t |-> "object", v |-> f]
EmptyObject == JObject(<<>>)
\* Python None passed as an argument
None == JNull

SeqsUpTo(S, n) == UNION {[1..m -> S] : m \in 0..n}

\* zero or one value: <<>> is "field absent"
Optional(S) == {<<>>} \cup {<<x>> : x \in S}
Field(key, opt) == IF opt = <<>> THEN <<>> ELSE key :> opt[1]

Messages == {"bad field", "unknown argument"}
ErrorObject(m) == JObject([message |-> JString(<<m>>)])
ErrorLists == {JArray(a) : a \in SeqsUpTo({ErrorObject(m) : m \in Messages}, MaxErrors)}

\* the devices connection the queries select; pageInfo.hasNextPage either way
DevicesPage(more) ==
    JObject([devices |-> JObject([edges |-> JArray(<<JObject([node |-> JObject([id |-> JString(<<"1">>)])])>>),
                                  pageInfo |-> JObject([hasNextPage |-> JBool(more)])])])
DataValues == {JNull} \cup {DevicesPage(more) : more \in BOOLEAN}
ExtensionValues == {EmptyObject}

ObjectBodies ==
    {JObject(Field("errors", e) @@ Field("data", d) @@ Field("extensions", x)) :
        e \in Optional(ErrorLists), d \in Optional(DataValues), x \in Optional(ExtensionValues)}

Words == {"errors", "data", "oops"}
StringBodies == {JString(s) : s \in SeqsUpTo(Words, MaxStrLen)}
ArrayBodies == {JArray(a) : a \in SeqsUpTo({JString(<<w>>) : w \in Words}, MaxArrayLen)}
ScalarBodies == {JNull, JBool(TRUE), JNumber(0)}

JsonValues == ObjectBodies \cup StringBodies \cup ArrayBodies \cup ScalarBodies

\* what the server can put in an HTTP response body
Bodies == {[t |-> "json_text", v |-> j] : j \in JsonValues}
            \cup {[t |-> "not_json", v |-> text] : text \in {"", "<html>"}}

Unbound == [t |-> "unbound", v |-> "unbound"]
NoExc == "NoExc"
TransportFaults == {"ConnectionError", "Timeout", "SSLError"}


-----------------------------------------------------------------------------
(* The literals of the scripts. *)

Scripts == {"test_graphql", "test_fields", "correct_query"}

SL1_URL == "https://52.3.210.190/gql"
SL1_USER == "rpoppes_gql"
SL1_PASS == "T3stSL!pwd"

\* test_graphql.py's six query documents (abbreviated to what tells them apart)
query1 == "query { devices(first: 2) { edges { node { id name } } } }"
query2 == "query { devices(first: 2) { edges { node { id name ip state } } } }"
query3 == "query { devices(first: 2) { edges { node { id name deviceClass { name } } } } }"
query4 == "query { devices(first: 2) { edges { node { id name organization { name } } } } }"
query5 == "query { devices(first: 2) { edges { node { id name } } pageInfo { hasNextPage } } }"
query6 == "query { devices(first: 2, search: server) { edges { node { id name } } } }"

\* correct_query.py's documents
WORKING_QUERY == "query GetDevices($limit: Int!) { devices(first: $limit) { edges { node { id name ip state deviceClass { id } organization { id } } } pageInfo { hasNextPage } } }"
SEARCH_QUERY == "query SearchDevices($searchTerm: String!, $limit: Int!) { devices(search: {name: {contains: $searchTerm}} first: $limit) { edges { node { id name ip state } } } }"

Probe(name, query, variables) == [name |-> name, query |-> query, variables |-> variables]

\* the calls of each script, in source order; test_graphql.py never passes
\* `variables`, so the parameter takes its default None
GraphqlProbes ==
    << Probe("Basic devices", query1, None),
       Probe("Devices with state", query2, None),
       Probe("Devices with deviceClass", query3, None),
       Probe("Devices with organization", query4, None),
       Probe("Devices with pagination", query5, None),
       Probe("Devices with search", query6, None) >>

\* test_fields.py's test_query has no `variables` parameter at all
FieldsProbes ==
    << Probe("deviceClass with id",
             "query { devices(first: 1) { edges { node { id name deviceClass { id } } } } }", None),
       Probe("organization with id",
             "query { devices(first: 1) { edges { node { id name organization { id } } } } }", None),
       Probe("search with DeviceSearch object",
             "query { devices(first: 2, search: {name: {contains: SELAB}}) { edges { node { id name } } } }", None),
       Probe("Complete working query",
             "query { devices(first: 3) { edges { node { id name ip state deviceClass { id } organization { id } } } pageInfo { hasNextPage } } }", None) >>

\* correct_query.py posts once, at module level, with variables {"limit": 5}
CorrectProbes ==
    << Probe("WORKING_QUERY", WORKING_QUERY, JObject([limit |-> JNumber(5)])) >>

Probes(s) ==
    CASE s = "test_graphql" -> GraphqlProbes
      [] s = "test_fields" -> FieldsProbes
      [] s = "correct_query" -> CorrectProbes

NumProbes(s) == Len(Probes(s))

-----------------------------------------------------------------------------
(* Python semantics the scripts rely on. *)

\* bool(x) of a JSON-like value
Truthy(j) ==
    CASE j.t = "null" -> FALSE
      [] j.t = "bool" -> j.v
      [] j.t = "number" -> j.v # 0
      [] j.t = "string" -> j.v # <<>>
      [] j.t = "array" -> j.v # <<>>
      [] j.t = "object" -> DOMAIN j.v # {}
      [] OTHER -> TRUE

\* a or b
PyOr(a, b) == IF Truthy(a) THEN a ELSE b

\* key in container: dict membership, substring of a str, element of a list;
\* anything else is not iterable
PyIn(key, container) ==
    CASE container.t = "object" ->
            IF key \in DOMAIN container.v THEN "True" ELSE "False"
      [] container.t = "string" ->
            IF \E i \in 1..Len(container.v) : container.v[i] = key THEN "True" ELSE "False"
      [] container.t = "array" ->
            IF \E i \in 1..Len(container.v) : container.v[i] = JString(<<key>>)
            THEN "True" ELSE "False"
      [] OTHER -> "TypeError"

\* whether container[key] evaluates (str and list indices must be integers)
CanSubscript(container, key) ==
    container.t = "object" /\ key \in DOMAIN container.v

\* response.json(): the parsed body, when the body is JSON text at all
IsJson(body) == body.t = "json_text"
Json(body) == body.v

\* stdout lines
TextLine(s) == [t |-> "text", v |-> s]
\* print(json.dumps(x, indent=2))
DumpsLine(j) == [t |-> "json.dumps", v |-> j]
\* print(f"Testing: {query_name}")
TestingLine(name) == [t |-> "Testing:", v |-> name]
\* print(f"Request failed: {e}")
FailedLine(e) == [t |-> "Request failed:", v |-> e]
Rule == TextLine("====")


-----------------------------------------------------------------------------
(* Request construction. *)

\* whether a parsed body says more pages exist (data.devices.pageInfo.hasNextPage)
HasNextPage(j) ==
    /\ j.t = "object"
    /\ "data" \in DOMAIN j.v
    /\ j.v["data"] = DevicesPage(TRUE)

\* faulty variant: a body that remembers an earlier failure (state kept across calls)
JsonBodyRemembering(s, query, variables) ==
    IF \E i \in 1..Len(calls) : calls[i].status = "failed"
    THEN [query |-> query, variables |-> JObject([retry |-> JBool(TRUE)])]
    ELSE [query |-> query, variables |-> EmptyObject]

\* the json= argument of requests.post
JsonBody(s, query, variables) ==
    CASE s = "test_graphql" -> [query |-> query, variables |-> PyOr(variables, EmptyObject)]
      [] s = "test_fields" -> [query |-> query]
      [] s = "correct_query" -> [query |-> query, variables |-> variables]

\* requests.post(SL1_URL, json=..., auth=(SL1_USER, SL1_PASS), verify=False)
Request(s, p) ==
    [url |-> SL1_URL,
     json |-> JsonBody(s, p.query, p.variables),
     auth |-> <<SL1_USER, SL1_PASS>>,
     verify |-> FALSE]

-----------------------------------------------------------------------------
(* Control flow. *)

\* only test_query wraps its POST and parsing in try/except Exception;
\* correct_query.py runs them bare at module level
HasTry(s) == s \in {"test_graphql", "test_fields"}

\* faulty variant: no handler anywhere, every exception ends the script
HandlerOfNone(s) == "crashed"

\* where an exception raised by the POST, the parse or the checks lands
HandlerOf(s) == IF HasTry(s) THEN "except" ELSE "crashed"

\* faulty variant: fire and forget, the call returns with the request still out
PostNextAsync == "ret"

\* requests.post blocks until the exchange is over
PostNext == "wait"

\* after response.json(): test_query inspects the result, correct_query.py prints it whole
AfterJson(s) == IF HasTry(s) THEN "check_errors" ELSE "print_result"

\* faulty variant: `elif "data" in result`
AfterErrorsElif(hadErrors) == IF hadErrors THEN "ret" ELSE "check_data"

\* the data check is a second `if`, not an `elif`: it runs whether or not errors were printed
AfterErrors(hadErrors) == "check_data"

\* faulty variant: the except clause loops back and posts again
ExceptNextRetry == "post"

\* the except clause prints and falls off the end of test_query
ExceptNext == "ret"

\* faulty variant: a page with hasNextPage true makes the script ask again
NextProbeFollowPage(i) == IF HasNextPage(result) THEN i ELSE i + 1

\* the script goes on to its next statement, whatever the probe brought
NextProbe(i) == i + 1

\* section headers of the two test_query variants
ErrorsHeader(s) == IF s = "test_graphql" THEN TextLine("GraphQL Errors:") ELSE TextLine("Errors:")
DataHeader(s) == IF s = "test_graphql" THEN TextLine("Data received:") ELSE TextLine("Data:")

\* module-level prints ahead of a probe, then test_query's own banner
Banner(s, i) ==
    (IF s = "test_graphql" /\ i = 1
     THEN <<Rule, TextLine("TEST 1: Basic devices query (no parameters)"), Rule>>
     ELSE <<>>)
    \o (IF HasTry(s) THEN <<Rule, TestingLine(Probes(s)[i].name), Rule>> ELSE <<>>)

\* what is printed after the last probe
FinalLines(s) ==
    CASE s = "test_graphql" -> <<Rule, TextLine("TESTING COMPLETE!"), Rule>>
      [] s = "test_fields" -> <<>>
      [] s = "correct_query" ->
            <<Rule, TextLine("WORKING SEARCH QUERY:"), Rule, TextLine(SEARCH_QUERY)>>

\* an exception leaves the current statement: into test_query's except clause,
\* or out of the script (traceback, exit status 1)
Propagate(e) ==
    /\ exc' = e
    /\ pc' = HandlerOf(script)
    /\ exitStatus' = IF HandlerOf(script) = "crashed" THEN <<1>> ELSE exitStatus

Init ==
    /\ script \in Scripts
    /\ pc = "main"
    /\ k = 1
    /\ response = Unbound
    /\ result = Unbound
    /\ exc = NoExc
    /\ out = <<>>
    /\ sent = <<>>
    /\ inflight = <<>>
    /\ calls = <<>>
    /\ exitStatus = <<>>

\* the script reaches its next probe: test_query is entered and prints its banner
Enter ==
    /\ pc = "main"
    /\ k <= NumProbes(script)
    /\ out' = Banner(script, k)
    /\ calls' = Append(calls, [name |-> Probes(script)[k].name, status |-> "running"])
    /\ response' = Unbound
    /\ result' = Unbound
    /\ exc' = NoExc
    /\ pc' = "post"
    /\ UNCHANGED <<script, k, sent, inflight, exitStatus>>

\* requests.post(...) puts the request on the wire
Post ==
    /\ pc = "post"
    /\ sent' = Append(sent, Request(script, Probes(script)[k]))
    /\ inflight' = Append(inflight, Request(script, Probes(script)[k]))
    /\ pc' = PostNext
    /\ UNCHANGED <<script, k, response, result, exc, out, calls, exitStatus>>

\* the server answers, with any status and any body
PostReturns ==
    /\ pc = "wait"
    /\ inflight # <<>>
    /\ \E body \in Bodies : response' = body
    /\ inflight' = Tail(inflight)
    /\ pc' = "json"
    /\ UNCHANGED <<script, k, result, exc, out, sent, calls, exitStatus>>

\* the POST cannot be completed: requests raises
PostRaises ==
    /\ pc = "wait"
    /\ inflight # <<>>
    /\ \E fault \in TransportFaults : Propagate(fault)
    /\ inflight' = Tail(inflight)
    /\ UNCHANGED <<script, k, response, result, out, sent, calls>>

\* result = response.json()
ParseJson ==
    /\ pc = "json"
    /\ IF IsJson(response)
       THEN /\ result' = Json(response)
            /\ pc' = AfterJson(script)
            /\ UNCHANGED <<exc, exitStatus>>
       ELSE /\ Propagate("JSONDecodeError")
            /\ UNCHANGED result
    /\ UNCHANGED <<script, k, response, out, sent, inflight, calls>>

\* if "errors" in result: print the header, then json.dumps(result["errors"])
CheckErrors ==
    /\ pc = "check_errors"
    /\ LET found == PyIn("errors", result) IN
       CASE found = "TypeError" ->
               /\ Propagate("TypeError")
               /\ UNCHANGED out
         [] found = "True" /\ CanSubscript(result, "errors") ->
               /\ out' = out \o <<ErrorsHeader(script), DumpsLine(result.v["errors"])>>
               /\ pc' = AfterErrors(TRUE)
               /\ UNCHANGED <<exc, exitStatus>>
         [] found = "True" /\ ~CanSubscript(result, "errors") ->
               /\ out' = Append(out, ErrorsHeader(script))
               /\ Propagate("TypeError")
         [] found = "False" ->
               /\ pc' = AfterErrors(FALSE)
               /\ UNCHANGED <<out, exc, exitStatus>>
    /\ UNCHANGED <<script, k, response, result, sent, inflight, calls>>

\* if "data" in result: print the header, then json.dumps(result["data"])
CheckData ==
    /\ pc = "check_data"
    /\ LET found == PyIn("data", result) IN
       CASE found = "TypeError" ->
               /\ Propagate("TypeError")
               /\ UNCHANGED out
         [] found = "True" /\ CanSubscript(result, "data") ->
               /\ out' = out \o <<DataHeader(script), DumpsLine(result.v["data"])>>
               /\ pc' = "ret"
               /\ UNCHANGED <<exc, exitStatus>>
         [] found = "True" /\ ~CanSubscript(result, "data") ->
               /\ out' = Append(out, DataHeader(script))
               /\ Propagate("TypeError")
         [] found = "False" ->
               /\ pc' = "ret"
               /\ UNCHANGED <<out, exc, exitStatus>>
    /\ UNCHANGED <<script, k, response, result, sent, inflight, calls>>

\* except Exception as e: print(f"Request failed: {e}")
Except ==
    /\ pc = "except"
    /\ out' = Append(out, FailedLine(exc))
    /\ pc' = ExceptNext
    /\ UNCHANGED <<script, k, response, result, exc, sent, inflight, calls, exitStatus>>

\* correct_query.py prints the query and the whole parsed result
PrintResult ==
    /\ pc = "print_result"
    /\ out' = out \o <<TextLine("WORKING LAMBDA QUERY:"), Rule, TextLine(WORKING_QUERY),
                       TextLine("SAMPLE RESPONSE:"), DumpsLine(result)>>
    /\ pc' = "ret"
    /\ UNCHANGED <<script, k, response, result, exc, sent, inflight, calls, exitStatus>>

\* the probe's statements are over: test_query returns and its frame is gone
Return ==
    /\ pc = "ret"
    /\ calls' = [calls EXCEPT ![Len(calls)].status = IF exc = NoExc THEN "returned" ELSE "failed"]
    /\ k' = NextProbe(k)
    /\ response' = Unbound
    /\ result' = Unbound
    /\ exc' = NoExc
    /\ pc' = "main"
    /\ UNCHANGED <<script, out, sent, inflight, exitStatus>>

\* past the last probe: the trailing prints, then the interpreter exits normally
Finish ==
    /\ pc = "main"
    /\ k > NumProbes(script)
    /\ out' = FinalLines(script)
    /\ pc' = "done"
    /\ exitStatus' = <<0>>
    /\ UNCHANGED <<script, k, response, result, exc, sent, inflight, calls>>

Next ==
    \/ Enter
    \/ Post
    \/ PostReturns
    \/ PostRaises
    \/ ParseJson
    \/ CheckErrors
    \/ CheckData
    \/ Except
    \/ PrintResult
    \/ Return
    \/ Finish

Spec == Init /\ [][Next]_vars

\* every enabled step is eventually taken: the interpreter runs, and every POST
\* eventually returns or raises
FairSpec == Spec /\ WF_vars(Next)


-----------------------------------------------------------------------------
(* Properties. *)

AtEndOfTestQuery == HasTry(script) /\ pc = "ret"
Ended(call) == call.status \in {"returned", "failed"}
SectionLines == {ErrorsHeader(script), DataHeader(script)}
Printed(line) == \E i \in 1..Len(out) : out[i] = line
\* C1: in every script a POST that cannot be completed is caught at the call
\* site and printed; no transport exception escapes and ends the script.
C1_TransportFaultCaught == ~(pc = "crashed" /\ exc \in TransportFaults)

\* C2: every script ends with exit status 0, whatever its requests brought
\* (data, errors, a non-JSON body, a transport failure).
C2_ExitStatusZero == exitStatus \in {<<>>, <<0>>}

\* C3: for a parsed JSON-object body, test_query prints the errors section iff
\* the body has a top-level "errors" field and the data section iff it has a
\* top-level "data" field, independently of each other, errors before data.
C3_SectionsFollowFields ==
    (AtEndOfTestQuery /\ result.t = "object") =>
        out = Banner(script, k)
              \o (IF "errors" \in DOMAIN result.v
                  THEN <<ErrorsHeader(script), DumpsLine(result.v["errors"])>> ELSE <<>>)
              \o (IF "data" \in DOMAIN result.v
                  THEN <<DataHeader(script), DumpsLine(result.v["data"])>> ELSE <<>>)

\* a body carrying both fields has been reported, with both sections
C3_Witness ==
    /\ AtEndOfTestQuery
    /\ result.t = "object"
    /\ {"errors", "data"} \subseteq DOMAIN result.v
    /\ Printed(ErrorsHeader(script))
    /\ Printed(DataHeader(script))

\* C4: every probe makes exactly one network attempt, whatever its outcome, so
\* the POSTs made are one per probe started, and a finished run has made as
\* many POSTs as the script has probes.
C4_OnePostPerProbe ==
    /\ Len(sent) = IF pc = "post" THEN Len(calls) - 1 ELSE Len(calls)
    /\ exitStatus # <<>> => Len(sent) = NumProbes(script)

\* a probe whose POST raised has been handled without a second attempt
C4_Witness ==
    /\ AtEndOfTestQuery
    /\ exc \in TransportFaults
    /\ k >= 2
    /\ Len(sent) = k

\* C5: pagination is never followed: the queries sent are always the script's
\* queries in source order, whatever the responses held, and a response with
\* hasNextPage true is followed by no request of its own.
C5_QueriesFixed ==
    /\ Len(sent) <= NumProbes(script)
    /\ \A i \in 1..Len(sent) : sent[i].json.query = Probes(script)[i].query

\* a page with hasNextPage true has been received and nothing more was sent for it
C5_Witness ==
    /\ pc = "ret"
    /\ HasNextPage(result)
    /\ Len(sent) = k
    /\ k >= 2

\* C6: every request carries both a "query" field and a "variables" field
\* that is an object; none is sent with "variables" missing or null.
C6_VariablesAlwaysSent ==
    \A i \in 1..Len(sent) :
        /\ "query" \in DOMAIN sent[i].json
        /\ "variables" \in DOMAIN sent[i].json
        /\ sent[i].json.variables.t = "object"

\* C7: requests are strictly sequential and in source order: at most one is
\* outstanding, and a probe's request goes out only after every earlier probe
\* has ended, its response printed or its failure printed.
C7_Sequential ==
    /\ Len(inflight) <= 1
    /\ Len(calls) <= NumProbes(script)
    /\ \A i \in 1..Len(calls) : calls[i].name = Probes(script)[i].name
    /\ \A i \in 1..(Len(calls) - 1) : Ended(calls[i])
    /\ inflight # <<>> => (Len(sent) = Len(calls) /\ inflight[1] = sent[Len(sent)])

\* a later probe's request is outstanding after an earlier probe failed
C7_Witness ==
    /\ pc = "wait"
    /\ Len(inflight) = 1
    /\ Len(calls) >= 3
    /\ calls[1].status = "failed"
    /\ calls[2].status = "returned"

\* the request of a script's i-th probe, from the script's literals alone
C8_RequestOf(s, i) ==
    [url |-> "https://52.3.210.190/gql",
     json |-> CASE s = "test_graphql" -> [query |-> Probes(s)[i].query, variables |-> EmptyObject]
                [] s = "test_fields" -> [query |-> Probes(s)[i].query]
                [] s = "correct_query" -> [query |-> WORKING_QUERY,
                                           variables |-> JObject([limit |-> JNumber(5)])],
     auth |-> <<"rpoppes_gql", "T3stSL!pwd">>,
     verify |-> FALSE]

\* what test_query prints for probe i, from the probe's own exchange alone
C8_SectionOf(s, j, key, header) ==
    CASE j.t = "object" /\ key \in DOMAIN j.v -> <<header, DumpsLine(j.v[key])>>
      [] j.t = "string" /\ (\E n \in 1..Len(j.v) : j.v[n] = key) -> <<header>>
      [] j.t = "array" /\ (\E n \in 1..Len(j.v) : j.v[n] = JString(<<key>>)) -> <<header>>
      [] OTHER -> <<>>
C8_Raises(j, key) ==
    \/ j.t \notin {"object", "string", "array"}
    \/ j.t = "string" /\ (\E n \in 1..Len(j.v) : j.v[n] = key)
    \/ j.t = "array" /\ (\E n \in 1..Len(j.v) : j.v[n] = JString(<<key>>))
C8_ReportOf(s, i, body, fault) ==
    Banner(s, i) \o
    (CASE body.t = "unbound" -> <<FailedLine(fault)>>
       [] body.t = "not_json" -> <<FailedLine("JSONDecodeError")>>
       [] OTHER ->
            C8_SectionOf(s, body.v, "errors", ErrorsHeader(s))
            \o (IF C8_Raises(body.v, "errors")
                THEN <<FailedLine("TypeError")>>
                ELSE C8_SectionOf(s, body.v, "data", DataHeader(s))
                     \o (IF C8_Raises(body.v, "data") THEN <<FailedLine("TypeError")>> ELSE <<>>)))

\* C8: calls are stateless: the request of a probe is fixed by the probe's own
\* arguments, and what is reported for it by its own response, whatever the
\* earlier probes brought.
C8_Stateless ==
    /\ \A i \in 1..Len(sent) : i <= NumProbes(script) /\ sent[i] = C8_RequestOf(script, i)
    /\ AtEndOfTestQuery => out = C8_ReportOf(script, k, response, exc)

\* data is reported for a probe that follows a failed one
C8_Witness ==
    /\ AtEndOfTestQuery
    /\ Len(calls) >= 2
    /\ calls[1].status = "failed"
    /\ exc = NoExc
    /\ result.t = "object"
    /\ "data" \in DOMAIN result.v
    /\ Printed(DataHeader(script))

\* C9: a probe that ends in the failure branch has printed nothing of a
\* response: no errors section, no data section, not even their headers.
C9_FailureMeansNoSection ==
    (AtEndOfTestQuery /\ exc # NoExc) =>
        \A i \in 1..Len(out) : out[i] \notin SectionLines /\ out[i].t # "json.dumps"

Complete == pc = "done" /\ Printed(TextLine("TESTING COMPLETE!"))
AllProbesHandled ==
    /\ Len(calls) = NumProbes(script)
    /\ \A i \in 1..Len(calls) : calls[i].name = Probes(script)[i].name /\ Ended(calls[i])

\* C10: if every POST eventually returns or raises, a run of test_graphql.py
\* terminates at its TESTING COMPLETE! banner, and reaches it only after all
\* six probes have printed their banner and been handled, whatever each brought.
C10_Terminates ==
    (script = "test_graphql") => (<>Complete /\ [](Complete => AllProbesHandled))

\* the run is complete after probes that failed and probes that returned
C10_Witness ==
    /\ Complete
    /\ Len(calls) = Len(GraphqlProbes)
    /\ \E i \in 1..Len(calls) : calls[i].status = "failed"
    /\ \E i \in 1..Len(calls) : calls[i].status = "returned"

=============================================================================
